---- MODULE Spec2Model ----
(***************************************************************************)
(* A model of pydase_service_base/ionizer_interface/rpc_interface.py: the  *)
(* RPCInterface handlers (get_props, get_param, set_param, remote_call)    *)
(* working on a sample pydase service, the snapshot kept by the state      *)
(* manager (cache_value) and the event loop that runs the handlers.        *)
(*                                                                         *)
(* The sample service (the object tree is external to the module):         *)
(*   plain : int            en : Mode (Enum A = 1, B = 20, C = 3)          *)
(*   q     : Quantity       sl : NumberSlider whose value is a Quantity    *)
(*   sp    : NumberSlider whose value is a plain number                    *)
(*   sub   : DataService with attribute x and method echo(x)               *)
(*   configure(gain, offset) : method                                      *)
(* The tree and a serialized document are flat maps from attribute paths   *)
(* (sequences of segments) to values / serialized nodes.                   *)
(***************************************************************************)
EXTENDS Integers, Sequences, FiniteSets, TLC

VARIABLES
    live,      \* the service's attribute tree: path -> value
    cache,     \* state_manager.cache_value: path -> serialized node
    sig,       \* the signatures of the service's methods: path -> parameters
    calls,     \* per client: the RPC call it issued and how far it has run
    running,   \* the client whose handler holds the event loop, or NoClient
    issued,    \* number of requests issued so far
    epoch      \* number of changes made to the live tree so far

vars == <<live, cache, sig, calls, running, issued, epoch>>

-----------------------------------------------------------------------------
(* Bounds of the model *)

MaxCalls == 2

MaxAnnotLen == 3

Clients == {"c1", "c2"}

NoClient == "none"

-----------------------------------------------------------------------------
(* Values of the object tree *)

IntV(n) == [k |-> "int", n |-> n, s |-> ""]

StrV(s) == [k |-> "str", n |-> 0, s |-> s]

EnumV(name) == [k |-> "enum", n |-> 0, s |-> name]

QuantV(m, u) == [k |-> "quantity", n |-> m, s |-> u]

NoneV == [k |-> "none", n |-> 0, s |-> ""]

ObjV(kind) == [k |-> kind, n |-> 0, s |-> ""]

MethV(name) == [k |-> "method", n |-> 0, s |-> name]

\* class Mode(Enum) of the sample service, members in definition order
Mode == << [name |-> "A", value |-> 1],
           [name |-> "B", value |-> 20],
           [name |-> "C", value |-> 3] >>

MemberNames == {Mode[i].name : i \in 1..Len(Mode)}

\* Enum.value of the member called name
MemberValue(name) == Mode[CHOOSE i \in 1..Len(Mode) : Mode[i].name = name].value

-----------------------------------------------------------------------------
(* Paths of the sample service *)

P_plain == <<"plain">>
P_en == <<"en">>
P_q == <<"q">>
P_sl == <<"sl">>
P_slv == <<"sl", "value">>
P_sp == <<"sp">>
P_spv == <<"sp", "value">>
P_sub == <<"sub">>
P_subx == <<"sub", "x">>
P_echo == <<"sub", "echo">>
P_conf == <<"configure">>
P_nosuch == <<"no", "such", "attr">>
P_nope == <<"nope">>

TreePaths == {P_plain, P_en, P_q, P_sl, P_slv, P_sp, P_spv, P_sub, P_subx,
              P_echo, P_conf}

InitLive ==
    (P_plain :> IntV(7)) @@ (P_en :> EnumV("A")) @@ (P_q :> QuantV(5, "V")) @@
    (P_sl :> ObjV("slider")) @@ (P_slv :> QuantV(2, "A")) @@
    (P_sp :> ObjV("slider")) @@ (P_spv :> IntV(0)) @@
    (P_sub :> ObjV("service")) @@ (P_subx :> IntV(7)) @@
    (P_echo :> MethV("echo")) @@ (P_conf :> MethV("configure"))

-----------------------------------------------------------------------------
(* Annotation strings are sequences of characters; an optional result is   *)
(* <<>> (Python's None) or <<x>>.                                          *)

None == << >>

Some(x) == <<x>>

Quote == "'"

A_int == <<"<", "c", "l", "a", "s", "s", " ", "'", "i", "n", "t", "'", ">">>

A_float == <<"<", "c", "l", "a", "s", "s", " ", "'", "f", "l", "o", "a", "t", "'", ">">>

A_list == <<"l", "i", "s", "t", "[", "i", "n", "t", "]">>

InitSig ==
    (P_conf :> << [name |-> "gain", annotation |-> A_int],
                  [name |-> "offset", annotation |-> A_float] >>) @@
    (P_echo :> << [name |-> "x", annotation |-> A_list] >>)

\* [^']* matched greedily from position j: the first position at or after j
\* that holds a quote, or Len(a) + 1 when there is none
RECURSIVE SkipNonQuotes(_, _)
SkipNonQuotes(a, j) ==
    IF j > Len(a) \/ a[j] = Quote THEN j ELSE SkipNonQuotes(a, j + 1)

\* re.search(r"'([^']*)'", a) tried at start positions i, i + 1, ...
RECURSIVE SearchFrom(_, _)
SearchFrom(a, i) ==
    IF i > Len(a) THEN None
    ELSE IF a[i] = Quote
         THEN LET j == SkipNonQuotes(a, i + 1)
              IN  IF j <= Len(a) THEN Some(SubSeq(a, i + 1, j - 1))
                  ELSE SearchFrom(a, i + 1)
         ELSE SearchFrom(a, i + 1)

\* a plausible slip: the greedy pattern '(.*)' (first quote to last quote)
RECURSIVE LastQuote(_, _)
LastQuote(a, j) ==
    IF j = 0 THEN 0 ELSE IF a[j] = Quote THEN j ELSE LastQuote(a, j - 1)

extract_type_name_greedy(a) ==
    LET i == SkipNonQuotes(a, 1)
        j == LastQuote(a, Len(a))
    IN  IF i <= Len(a) /\ j > i THEN Some(SubSeq(a, i + 1, j - 1)) ELSE None

extract_type_name(a) == SearchFrom(a, 1)

-----------------------------------------------------------------------------
(* Serialized nodes *)

NoParams == [x \in {} |-> None]

Node(type, n, s) ==
    [type |-> type, n |-> n, s |-> s, signature |-> << >>,
     hasParameters |-> FALSE, parameters |-> NoParams]

TypeTag(v) ==
    CASE v.k = "int" -> "int"
      [] v.k = "str" -> "str"
      [] v.k = "enum" -> "Enum"
      [] v.k = "quantity" -> "Quantity"
      [] v.k = "slider" -> "NumberSlider"
      [] v.k = "service" -> "DataService"
      [] v.k = "method" -> "method"
      [] OTHER -> "NoneType"

\* pydase's dump(value): the serialized form of one value
dump(v) == Node(TypeTag(v), v.n, v.s)

\* what the setter primitive makes of a serialized value (pydase's loads)
loads(node) ==
    CASE node.type = "int" -> IntV(node.n)
      [] node.type = "str" -> StrV(node.s)
      [] node.type = "Enum" -> EnumV(node.s)
      [] node.type = "Quantity" -> QuantV(node.n, node.s)
      [] OTHER -> NoneV

\* service.serialize()["value"]: every attribute's node; a method's node
\* carries its signature
Serialize(tree, sg) ==
    [p \in DOMAIN tree |->
        IF tree[p].k = "method"
        THEN [Node("method", 0, tree[p].s) EXCEPT !.signature = sg[p]]
        ELSE dump(tree[p])]

\* the serialization of the sub-tree rooted at path p
SubDoc(doc, p) ==
    [x \in {y \in DOMAIN doc : Len(y) >= Len(p) /\ SubSeq(y, 1, Len(p)) = p}
        |-> doc[x]]

EmptyDoc == [p \in {} |-> Node("NoneType", 0, "")]

ParamNames(node) == {node.signature[i].name : i \in 1..Len(node.signature)}

AnnotationOf(node, nm) ==
    node.signature[CHOOSE i \in 1..Len(node.signature) :
                       node.signature[i].name = nm].annotation

add_parameters_keyword_to_dict(node) ==
    [node EXCEPT !.hasParameters = TRUE,
                 !.parameters = [nm \in ParamNames(node) |->
                                    extract_type_name(AnnotationOf(node, nm))]]

update_method_serialization(doc) ==
    [p \in DOMAIN doc |->
        IF doc[p].type = "method" THEN add_parameters_keyword_to_dict(doc[p])
        ELSE doc[p]]

-----------------------------------------------------------------------------
(* RPC calls *)

RawValues == {IntV(-4), IntV(-1), IntV(1), IntV(3), StrV("B")}

SetTargets == {P_plain, P_en, P_q, P_sl, P_sp, P_subx, P_nosuch, P_nope}

GetTargets == TreePaths \cup {P_nosuch, P_nope}

CallTargets == {P_conf, P_echo, P_plain, P_nosuch}

ArgLists == {<<IntV(1)>>, <<IntV(1), IntV(3)>>}

Errors == {"PathError", "NotFound", "IndexError", "TypeError"}

NewCall(op, path, raw, args) ==
    [op |-> op, path |-> path, raw |-> raw, args |-> args, pc |-> "pending",
     status |-> "-", ctype |-> "-", val |-> NoneV, eff |-> path,
     leafReads |-> 0,
     setterCalls |-> 0, retv |-> NoneV, retargs |-> << >>,
     retdoc |-> EmptyDoc, at |-> 0]

IdleCall == [NewCall("none", << >>, NoneV, << >>) EXCEPT !.pc = "idle"]

Requests ==
    {NewCall("get_props", << >>, NoneV, << >>)}
    \cup {NewCall("get_param", p, NoneV, << >>) : p \in GetTargets}
    \cup {NewCall("set_param", p, v, << >>) : p \in SetTargets, v \in RawValues}
    \cup {NewCall("remote_call", p, NoneV, a) : p \in CallTargets, a \in ArgLists}

\* a client sends a request; the handler has not started yet
Request(c) ==
    /\ calls[c].pc \in {"idle", "done"}
    /\ issued < MaxCalls
    /\ \E r \in Requests : calls' = [calls EXCEPT ![c] = r]
    /\ issued' = issued + 1
    /\ UNCHANGED <<live, cache, sig, running, epoch>>

\* a handler with a suspension point in its body: any pending or suspended
\* handler may take the event loop
CanRunSuspended(c) == TRUE

\* the handlers are coroutines whose bodies hold no await: once started, a
\* handler keeps the event loop until it returns
CanRun(c) == running \in {NoClient, c}

Finish(c, status, upd) ==
    [upd EXCEPT !.pc = "done", !.status = status, !.at = epoch']

-----------------------------------------------------------------------------
(* Path resolution (pydase.utils.helpers) on the sample tree *)

Front(path) == SubSeq(path, 1, Len(path) - 1)

\* get_object_attr_from_path(service, path) succeeds
Resolves(path) == path \in DOMAIN live

\* get_object_by_path_parts(service, path_parts[:-1]) succeeds
ParentResolves(path) == Len(path) = 1 \/ Front(path) \in DOMAIN live

-----------------------------------------------------------------------------
(* get_props *)

\* a plausible slip: the snapshot itself is enriched, not a copy
get_props_in_place(c) ==
    /\ calls[c].op = "get_props" /\ calls[c].pc = "pending" /\ CanRun(c)
    /\ cache' = update_method_serialization(cache)
    /\ epoch' = epoch
    /\ calls' = [calls EXCEPT ![c] =
                    Finish(c, "ok", [@ EXCEPT !.retdoc = cache'])]
    /\ UNCHANGED <<live, sig, running, issued>>

get_props(c) ==
    /\ calls[c].op = "get_props" /\ calls[c].pc = "pending" /\ CanRun(c)
    /\ epoch' = epoch
    /\ calls' = [calls EXCEPT ![c] =
                    Finish(c, "ok",
                           [@ EXCEPT !.retdoc = update_method_serialization(
                                                    Serialize(live, sig))])]
    /\ UNCHANGED <<live, cache, sig, running, issued>>

-----------------------------------------------------------------------------
(* get_param *)

Result(retv, retargs, retdoc) ==
    [retv |-> retv, retargs |-> retargs, retdoc |-> retdoc]

\* a plausible slip: the final "return param" is missing
PlainResult_missing(param) == Result(NoneV, << >>, EmptyDoc)

PlainResult(param) == Result(param, << >>, EmptyDoc)

QuantityResult(param) == Result(IntV(param.n), << >>, EmptyDoc)

EnumResult(param) == Result(IntV(MemberValue(param.s)), << >>, EmptyDoc)

\* the chain of type tests of get_param on the resolved attribute
Simplify(path) ==
    LET param == live[path]
    IN  CASE param.k = "slider" ->
               LET inner == live[Append(path, "value")]
               IN  IF inner.k = "quantity"
                   THEN Result(IntV(inner.n), << >>, EmptyDoc)
                   ELSE Result(inner, << >>, EmptyDoc)
          [] param.k = "service" ->
               Result(NoneV, << >>, SubDoc(Serialize(live, sig), path))
          [] param.k = "method" ->
               Result(StrV(param.s),
                      [i \in 1..Len(sig[path]) |-> sig[path][i].name],
                      EmptyDoc)
          [] param.k = "enum" -> EnumResult(param)
          [] param.k = "quantity" -> QuantityResult(param)
          [] OTHER -> PlainResult(param)

get_param(c) ==
    /\ calls[c].op = "get_param" /\ calls[c].pc = "pending" /\ CanRun(c)
    /\ epoch' = epoch
    /\ calls' = [calls EXCEPT ![c] =
            IF ~Resolves(calls[c].path) THEN Finish(c, "PathError", @)
            ELSE LET r == Simplify(calls[c].path)
                 IN  Finish(c, "ok", [@ EXCEPT !.retv = r.retv,
                                                !.retargs = r.retargs,
                                                !.retdoc = r.retdoc])]
    /\ UNCHANGED <<live, cache, sig, running, issued>>

-----------------------------------------------------------------------------
(* set_param: coercion (lines 111-131), then the commit (lines 133-135) *)

\* "Enum" in current_value_dict["type"]
IsEnumType(type) == type \in {"Enum", "ColouredEnum"}

\* a plausible slip: the integer is taken as the member's value, Mode(i)
ListIndex_by_value(cls, i) ==
    IF \E j \in 1..Len(cls) : cls[j].value = i
    THEN Some(cls[CHOOSE j \in 1..Len(cls) : cls[j].value = i])
    ELSE None

\* list(cls)[i] as Python indexes a list: a negative i counts from the end;
\* None stands for IndexError
ListIndex(cls, i) ==
    IF 0 <= i /\ i < Len(cls) THEN Some(cls[i + 1])
    ELSE IF i < 0 /\ -Len(cls) <= i THEN Some(cls[Len(cls) + i + 1])
    ELSE None

\* value * unit: a number pairs with the unit, a string does not (None)
PairWithUnit(v, u) == IF v.k = "int" THEN Some(QuantV(v.n, u)) ELSE None

\* a plausible slip: the unit recorded in the snapshot is used
LiveUnit_cached(path) == cache[path].s

\* current_value.u of the live Quantity attribute
LiveUnit(path) == live[path].s

\* a plausible slip: the unit of the slider's live value is used
SliderUnit_live(path) == live[Append(path, "value")].s

\* current_value_dict["value"]["value"]["value"]["unit"]
SliderUnit(path) == cache[Append(path, "value")].s

\* full_access_path + ".value"
EffectivePath(path) == Append(path, "value")

Coerced(status, val, eff, reads) ==
    [status |-> status, val |-> val, eff |-> eff, leafReads |-> reads]

\* lines 117-122: an integer written to an enum is a position in the
\* definition order of the class of the current (live) value
EnumRule(path, raw) ==
    IF IsEnumType(cache[path].type) /\ raw.k = "int"
    THEN IF ~Resolves(path) THEN Coerced("PathError", raw, path, 1)
         ELSE IF live[path].k # "enum" THEN Coerced("TypeError", raw, path, 1)
         ELSE LET m == ListIndex(Mode, raw.n)
              IN  IF m = None THEN Coerced("IndexError", raw, path, 1)
                  ELSE Coerced("ok", EnumV(m[1].name), path, 1)
    ELSE Coerced("ok", raw, path, 0)

\* lines 123-131, applied to the outcome st of the enum rule
UnitRule(path, st) ==
    IF st.status # "ok" THEN st
    ELSE IF cache[path].type = "Quantity"
    THEN IF ~Resolves(path) THEN Coerced("PathError", st.val, path, st.leafReads + 1)
         ELSE IF live[path].k # "quantity"
         THEN Coerced("TypeError", st.val, path, st.leafReads + 1)
         ELSE LET q == PairWithUnit(st.val, LiveUnit(path))
              IN  IF q = None
                  THEN Coerced("TypeError", st.val, path, st.leafReads + 1)
                  ELSE Coerced("ok", q[1], path, st.leafReads + 1)
    ELSE IF cache[path].type = "NumberSlider"
    THEN IF cache[Append(path, "value")].type = "Quantity"
         THEN LET q == PairWithUnit(st.val, SliderUnit(path))
              IN  IF q = None
                  THEN Coerced("TypeError", st.val, EffectivePath(path), st.leafReads)
                  ELSE Coerced("ok", q[1], EffectivePath(path), st.leafReads)
         ELSE Coerced("ok", st.val, EffectivePath(path), st.leafReads)
    ELSE st

\* the value set_service_attribute_value_by_path gives the attribute: an
\* enum-typed attribute written with a member's name takes that member
SetterValue(path, node) ==
    IF path \in DOMAIN cache /\ IsEnumType(cache[path].type)
       /\ node.type = "str" /\ node.s \in MemberNames
    THEN EnumV(node.s)
    ELSE loads(node)

\* the tree after the setter primitive wrote val at path
SetterApply(tree, path, val) ==
    [tree EXCEPT ![path] = SetterValue(path, dump(val))]

SetParamCoerceBody(c, writeFirst) ==
    LET path == calls[c].path
        raw == calls[c].raw
    IN
    /\ calls[c].op = "set_param" /\ calls[c].pc = "pending" /\ CanRun(c)
    /\ epoch' = epoch
    /\ IF ~ParentResolves(path)
       THEN /\ calls' = [calls EXCEPT ![c] = Finish(c, "PathError", @)]
            /\ UNCHANGED <<live, running>>
       ELSE IF path \notin DOMAIN cache
       THEN /\ calls' = [calls EXCEPT ![c] = Finish(c, "NotFound", @)]
            /\ UNCHANGED <<live, running>>
       ELSE LET r == UnitRule(path, EnumRule(path, raw))
            IN  /\ live' = IF writeFirst THEN SetterApply(live, path, raw) ELSE live
                /\ IF r.status # "ok"
                   THEN /\ calls' = [calls EXCEPT ![c] =
                               Finish(c, r.status,
                                      [@ EXCEPT !.ctype = cache[path].type,
                                                !.leafReads = r.leafReads])]
                        /\ UNCHANGED running
                   ELSE /\ calls' = [calls EXCEPT ![c] =
                               [@ EXCEPT !.pc = "coerced",
                                         !.ctype = cache[path].type,
                                         !.val = r.val, !.eff = r.eff,
                                         !.leafReads = r.leafReads]]
                        /\ running' = c
    /\ UNCHANGED <<cache, sig, issued>>

\* a plausible slip: the raw value is written before it is coerced
SetParamCoerce_write_first(c) == SetParamCoerceBody(c, TRUE)

SetParamCoerce(c) == SetParamCoerceBody(c, FALSE)

\* the single call of the setter primitive; the observer records the new
\* value in the snapshot as part of it
SetParamCommit(c) ==
    /\ calls[c].op = "set_param" /\ calls[c].pc = "coerced" /\ CanRun(c)
    /\ live' = SetterApply(live, calls[c].eff, calls[c].val)
    /\ cache' = [cache EXCEPT ![calls[c].eff] = dump(live'[calls[c].eff])]
    /\ epoch' = epoch + 1
    /\ calls' = [calls EXCEPT ![c] =
                    Finish(c, "ok", [@ EXCEPT !.setterCalls = @ + 1])]
    /\ running' = NoClient
    /\ UNCHANGED <<sig, issued>>

-----------------------------------------------------------------------------
(* remote_call *)

ToggleUnit(u) ==
    CASE u = "V" -> "mV"
      [] u = "mV" -> "V"
      [] u = "A" -> "mA"
      [] u = "mA" -> "A"
      [] OTHER -> u

\* the sample service's configure(gain, offset): it switches the range of
\* the instrument, so q and sl.value change their unit without a change
\* notification reaching the snapshot
ConfigureEffect(tree) ==
    [tree EXCEPT ![P_q].s = ToggleUnit(@), ![P_slv].s = ToggleUnit(@)]

remote_call(c) ==
    LET path == calls[c].path
        args == calls[c].args
    IN
    /\ calls[c].op = "remote_call" /\ calls[c].pc = "pending" /\ CanRun(c)
    /\ IF ~Resolves(path)
       THEN /\ epoch' = epoch /\ live' = live
            /\ calls' = [calls EXCEPT ![c] = Finish(c, "PathError", @)]
       ELSE IF live[path].k # "method" \/ Len(args) # Len(sig[path])
       THEN /\ epoch' = epoch /\ live' = live
            /\ calls' = [calls EXCEPT ![c] = Finish(c, "TypeError", @)]
       ELSE IF path = P_conf
       THEN /\ live' = ConfigureEffect(live)
            /\ epoch' = epoch + 1
            /\ calls' = [calls EXCEPT ![c] =
                            Finish(c, "ok", [@ EXCEPT !.retv = live'[P_q]])]
       ELSE /\ epoch' = epoch /\ live' = live
            /\ calls' = [calls EXCEPT ![c] =
                            Finish(c, "ok", [@ EXCEPT !.retv = args[1]])]
    /\ UNCHANGED <<cache, sig, running, issued>>

-----------------------------------------------------------------------------
(* The snapshot's owner brings the snapshot up to date *)

ObserverSync ==
    /\ running = NoClient
    /\ cache # Serialize(live, sig)
    /\ cache' = Serialize(live, sig)
    /\ UNCHANGED <<live, sig, calls, running, issued, epoch>>

-----------------------------------------------------------------------------
(* The specification *)

Init ==
    /\ live = InitLive
    /\ sig = InitSig
    /\ cache = Serialize(InitLive, InitSig)
    /\ calls = [c \in Clients |-> IdleCall]
    /\ running = NoClient
    /\ issued = 0
    /\ epoch = 0

Next ==
    \/ \E c \in Clients :
          \/ Request(c)
          \/ get_props(c)
          \/ get_param(c)
          \/ SetParamCoerce(c)
          \/ SetParamCommit(c)
          \/ remote_call(c)
    \/ ObserverSync

Spec == Init /\ [][Next]_vars

-----------------------------------------------------------------------------
(* A second specification for the method enrichment: the annotation        *)
(* strings of two parameters range over every string of at most            *)
(* MaxAnnotLen characters over {', i}, and the clients call get_props.     *)

AnnotChars == {Quote, "i"}

AnnotSet == UNION {[1..n -> AnnotChars] : n \in 0..MaxAnnotLen}

SigWith(a, b) ==
    (P_conf :> << [name |-> "gain", annotation |-> a],
                  [name |-> "offset", annotation |-> A_float] >>) @@
    (P_echo :> << [name |-> "x", annotation |-> b] >>)

InitProps ==
    /\ live = InitLive
    /\ \E a \in AnnotSet, b \in AnnotSet : sig = SigWith(a, b)
    /\ cache = Serialize(InitLive, sig)
    /\ calls = [c \in Clients |-> IdleCall]
    /\ running = NoClient
    /\ issued = 0
    /\ epoch = 0

RequestProps(c) ==
    /\ calls[c].pc \in {"idle", "done"}
    /\ issued < MaxCalls
    /\ calls' = [calls EXCEPT ![c] = NewCall("get_props", << >>, NoneV, << >>)]
    /\ issued' = issued + 1
    /\ UNCHANGED <<live, cache, sig, running, epoch>>

NextProps == \E c \in Clients : RequestProps(c) \/ get_props(c)

SpecProps == InitProps /\ [][NextProps]_vars

-----------------------------------------------------------------------------
(* Properties *)

SetDone(c) == calls[c].op = "set_param" /\ calls[c].pc = "done"

SetOk(c) == SetDone(c) /\ calls[c].status = "ok"

GetOk(c) ==
    calls[c].op = "get_param" /\ calls[c].pc = "done" /\ calls[c].status = "ok"

\* client c's handler takes a step of set_param
SetStep(c) ==
    /\ calls[c].op = "set_param"
    /\ calls[c].pc \in {"pending", "coerced"}
    /\ calls'[c] # calls[c]

\* client c's set_param makes its call of the setter primitive
CommitStep(c) ==
    /\ calls[c].op = "set_param"
    /\ calls[c].pc = "coerced"
    /\ calls'[c].pc = "done"

\* d read path p after c's write took effect and before any later change
ReadsAfter(d, c) ==
    /\ GetOk(d)
    /\ calls[d].path = calls[c].path
    /\ calls[d].at = calls[c].at

ValidIndex(i) == 0 <= i /\ i < Len(Mode)

\* C1: whatever the declared type of the target, set_param never evaluates
\* the live leaf attribute before the commit: the number of reads of the
\* leaf made by a set_param call is zero.
C1_NoLeafRead ==
    \A c \in Clients : calls[c].op = "set_param" => calls[c].leafReads = 0

\* C2: set_param is all-or-nothing: it calls the setter primitive at most
\* once, as its last step after resolution, lookup and coercion; only that
\* call changes the tree or the snapshot; a set_param that fails leaves both
\* exactly as they were.
C2_AllOrNothing ==
    [][\A c \in Clients : SetStep(c) =>
          /\ calls'[c].setterCalls <= 1
          /\ calls'[c].setterCalls # calls[c].setterCalls =>
                /\ calls[c].pc = "coerced"
                /\ calls'[c].pc = "done"
                /\ calls'[c].status = "ok"
          /\ calls'[c].status \in Errors =>
                /\ live' = live
                /\ cache' = cache
                /\ calls'[c].setterCalls = 0
          /\ (live' # live \/ cache' # cache) =>
                calls'[c].setterCalls = calls[c].setterCalls + 1]_vars

\* one set_param failed in coercion (enum index out of range), another
\* failed pairing a string with a unit
C2_Witness ==
    \E c, d \in Clients :
        /\ SetDone(c) /\ calls[c].status = "IndexError"
        /\ SetDone(d) /\ calls[d].status = "TypeError"
        /\ calls[d].ctype = "Quantity"

\* C3: for an enum-typed attribute, set_param(path, i) with i in 0..n-1
\* commits the member at definition position i, and a following
\* get_param(path) returns that member's value, which is the ordinal only
\* when the member's value equals it.
C3_EnumByPosition ==
    \A c \in Clients :
        (/\ SetOk(c)
         /\ IsEnumType(calls[c].ctype)
         /\ calls[c].raw.k = "int"
         /\ ValidIndex(calls[c].raw.n)) =>
            LET i == calls[c].raw.n
            IN  /\ calls[c].val = EnumV(Mode[i + 1].name)
                /\ epoch = calls[c].at =>
                      live[calls[c].path] = EnumV(Mode[i + 1].name)
                /\ \A d \in Clients : ReadsAfter(d, c) =>
                      /\ calls[d].retv = IntV(Mode[i + 1].value)
                      /\ calls[d].retv = IntV(i) => Mode[i + 1].value = i

\* index 1 was written, B is the live member and the read returned 20
C3_Witness ==
    \E c, d \in Clients :
        /\ SetOk(c) /\ IsEnumType(calls[c].ctype)
        /\ calls[c].raw = IntV(1)
        /\ ReadsAfter(d, c)
        /\ live[calls[c].path] = EnumV("B")
        /\ calls[d].retv = IntV(20)

\* C4: for an enum-typed attribute with n members, set_param(path, i) with
\* an integer i outside 0..n-1, negative ones included, fails with an index
\* error and maps to no member.
C4_OutOfRangeFails ==
    \A c \in Clients :
        (/\ SetDone(c)
         /\ IsEnumType(calls[c].ctype)
         /\ calls[c].raw.k = "int"
         /\ ~ValidIndex(calls[c].raw.n)) =>
            /\ calls[c].status = "IndexError"
            /\ calls[c].setterCalls = 0

\* C5: for a Quantity-typed attribute whose live value has unit u,
\* set_param(path, x) commits magnitude x with unit u, whatever the
\* previous magnitude, and a following get_param(path) returns the bare x.
C5_QuantityKeepsUnit ==
    /\ [][\A c \in Clients :
             (CommitStep(c) /\ calls[c].ctype = "Quantity") =>
                 /\ calls[c].eff = calls[c].path
                 /\ live'[calls[c].path] =
                        QuantV(calls[c].raw.n, live[calls[c].path].s)]_vars
    /\ [](\A c, d \in Clients :
             (SetOk(c) /\ calls[c].ctype = "Quantity" /\ ReadsAfter(d, c)) =>
                 calls[d].retv = IntV(calls[c].raw.n))

\* 3 was written to q, which held 5 V: q is 3 V and the read returned 3
C5_Witness ==
    \E c, d \in Clients :
        /\ SetOk(c) /\ calls[c].path = P_q /\ calls[c].raw = IntV(3)
        /\ calls[c].ctype = "Quantity"
        /\ live[P_q] = QuantV(3, "V")
        /\ ReadsAfter(d, c) /\ calls[d].retv = IntV(3)

PlainTypes == {"int", "str"}

\* C6: for a NumberSlider-typed attribute, set_param(path, x) commits to
\* path + ".value" and never to path itself; with a Quantity-typed inner
\* node the committed value is x with the unit recorded in the snapshot
\* (not the live unit, should they differ), with a plain inner node it
\* is x unchanged.
C6_SliderValuePath ==
    [][\A c \in Clients :
          (CommitStep(c) /\ calls[c].ctype = "NumberSlider") =>
              LET path == calls[c].path
                  inner == Append(calls[c].path, "value")
              IN  /\ calls[c].eff = inner
                  /\ live'[path] = live[path]
                  /\ \A p \in DOMAIN live : p # inner => live'[p] = live[p]
                  /\ live'[inner] =
                        IF cache[inner].type = "Quantity"
                        THEN QuantV(calls[c].raw.n, cache[inner].s)
                        ELSE calls[c].raw]_vars

\* configure left the live slider in mA while the snapshot said A; the
\* write of 3 to sl made sl.value 3 A and sl is still the slider
C6_Witness ==
    \E c, d \in Clients :
        /\ SetOk(c) /\ calls[c].path = P_sl /\ calls[c].raw = IntV(3)
        /\ calls[c].ctype = "NumberSlider"
        /\ calls[d].op = "remote_call" /\ calls[d].path = P_conf
        /\ calls[d].pc = "done" /\ calls[d].status = "ok"
        /\ calls[d].at < calls[c].at
        /\ live[P_q].s = "mV"
        /\ live[P_slv] = QuantV(3, "A")
        /\ live[P_sl] = ObjV("slider")

\* C7: on a plain attribute (no unit, no enum, no slider), set_param(p, v)
\* followed by get_param(p) with no write in between returns exactly v,
\* and the write leaves the value of every other path unchanged.
C7_PlainRoundTrip ==
    /\ [][\A c \in Clients :
             (CommitStep(c) /\ calls[c].ctype \in PlainTypes) =>
                 /\ calls[c].eff = calls[c].path
                 /\ \A p \in DOMAIN live :
                        p # calls[c].path => live'[p] = live[p]]_vars
    /\ [](\A c, d \in Clients :
             (SetOk(c) /\ calls[c].ctype \in PlainTypes /\ ReadsAfter(d, c)) =>
                 calls[d].retv = calls[c].raw)

\* the string "B" was written to the nested plain attribute sub.x and read
\* back
C7_Witness ==
    \E c, d \in Clients :
        /\ SetOk(c) /\ calls[c].path = P_subx /\ calls[c].raw = StrV("B")
        /\ calls[c].ctype = "int"
        /\ ReadsAfter(d, c) /\ calls[d].retv = StrV("B")

PropsDone(c) == calls[c].op = "get_props" /\ calls[c].pc = "done"

\* C8: get_props is a pure projection: two calls with no change of the
\* tree in between return identical documents, and a call changes neither
\* the live tree nor the snapshot, in which no node ever has a
\* "parameters" key.
C8_GetPropsPure ==
    /\ [][\A c \in Clients :
             (calls[c].op = "get_props" /\ calls[c].pc = "pending"
              /\ calls'[c].pc = "done") =>
                 (live' = live /\ cache' = cache)]_vars
    /\ [](\A c, d \in Clients :
             (PropsDone(c) /\ PropsDone(d) /\ calls[c].at = calls[d].at) =>
                 calls[c].retdoc = calls[d].retdoc)
    /\ [](\A p \in DOMAIN cache : ~cache[p].hasParameters)

\* both clients read the whole tree; the documents are equal and carry
\* the parameters of configure, the snapshot does not
C8_Witness ==
    /\ \A c \in Clients : PropsDone(c)
    /\ calls["c1"].retdoc = calls["c2"].retdoc
    /\ calls["c1"].retdoc[P_conf].hasParameters
    /\ ~cache[P_conf].hasParameters

IsFirstQuoted(a, r) ==
    LET Q == {i \in 1..Len(a) : a[i] = Quote}
    IN  IF Cardinality(Q) < 2 THEN r = None
        ELSE LET i == CHOOSE x \in Q : \A y \in Q : x <= y
                 j == CHOOSE x \in Q \ {i} : \A y \in Q \ {i} : x <= y
             IN  r = Some(SubSeq(a, i + 1, j - 1))

\* C10: in the document get_props returns, every method node at any depth
\* has a "parameters" mapping with exactly one entry per parameter of its
\* signature, each the text between the first pair of single quotes of the
\* annotation or None when there is no quoted text; no other node gains
\* the key or is altered (the document is compared with the serialization
\* of the tree it was made from).
C10_MethodParameters ==
    \A c \in Clients : (PropsDone(c) /\ calls[c].at = epoch) =>
        LET doc == calls[c].retdoc
            src == Serialize(live, sig)
        IN  /\ calls[c].status = "ok"
            /\ DOMAIN doc = DOMAIN src
            /\ \A p \in DOMAIN src :
                  IF src[p].type = "method"
                  THEN /\ doc[p].hasParameters
                       /\ DOMAIN doc[p].parameters = ParamNames(src[p])
                       /\ \A i \in 1..Len(src[p].signature) :
                             IsFirstQuoted(src[p].signature[i].annotation,
                                           doc[p].parameters[src[p].signature[i].name])
                       /\ [doc[p] EXCEPT !.hasParameters = FALSE,
                                         !.parameters = NoParams] = src[p]
                  ELSE doc[p] = src[p]

\* gain is annotated with three quotes (the first pair encloses nothing),
\* the nested method's x has no quote at all, offset is <class 'float'>
C10_Witness ==
    \E c \in Clients :
        /\ PropsDone(c)
        /\ sig[P_conf][1].annotation = <<Quote, Quote, Quote>>
        /\ sig[P_echo][1].annotation = <<"i", "i">>
        /\ calls[c].retdoc[P_conf].parameters["gain"] = Some(<< >>)
        /\ calls[c].retdoc[P_conf].parameters["offset"] = Some(<<"f", "l", "o", "a", "t">>)
        /\ calls[c].retdoc[P_echo].parameters["x"] = None
        /\ ~calls[c].retdoc[P_sub].hasParameters

====
